---- MODULE Spec2Model ----
(***************************************************************************)
(* Real-time feed distribution of the TikTok-like app: Socket.IO rooms     *)
(* (backend/socket.js), the Redis adapter relaying emits between server    *)
(* instances, the upload notifier and the like / follow controllers        *)
(* (backend/controllers), and the cron-driven trending job                 *)
(* (backend/server.js, backend/trendingJob.js).                            *)
(***************************************************************************)
EXTENDS Integers, Sequences, FiniteSets, TLC

\* ---------------------------------------------------------------- bounds
NumInstances == 2      \* server instances behind the load balancer
MaxConns     == 1      \* socket connections ever opened
NumUsers     == 2      \* user records in the data store
MaxUploads   == 1      \* upload requests
MaxTicks     == 2      \* cron ticks (over all instances)
MaxFollows   == 1      \* follow requests
MaxLikes     == 2      \* like requests
MaxOps       == 2      \* HTTP requests and cron ticks started, over all kinds

\* ------------------------------------------------------ program constants
TREND_THRESHOLD == 50  \* Number(process.env.TREND_THRESHOLD || 50)
TrendingLimit   == 10  \* .limit(10) in processTrending

Instances == 1..NumInstances
Conns     == 1..MaxConns
Users     == 1..NumUsers          \* ids that resolve to a User record
UserIds   == 1..(NumUsers + 1)    \* ids a request can carry; the last has no record
UploadIds == 1..MaxUploads
RunIds    == 1..MaxTicks
FollowIds == 1..MaxFollows
LikeIds   == 1..MaxLikes

\* like counts of the videos stored before the servers start
InitialLikes == <<60, 49, 90>>

\* ------------------------------------------------------------ room names
\* `user_${userId}`: one personal room per user id
UserRoom(u) == [kind |-> "user", id |-> u]
\* "trending": the single shared room
TrendingRoom == [kind |-> "trending", id |-> 0]

VARIABLES
  relayUp,     \* the Redis pub/sub clients of the adapter are connected
  sockets,     \* conn -> [state, inst]: socket state and the instance holding it
  rooms,       \* conn -> set of rooms the socket has joined (socket.rooms)
  identity,    \* conn -> user id of its latest register call (0: none)
  followers,   \* user -> User.followers array
  following,   \* user -> User.following array
  videos,      \* Video collection: video id -> [user, likes]
  uploads,     \* upload request -> progress of uploadVideo
  runs,        \* cron tick -> progress of processTrending
  follows,     \* follow request -> progress of follow
  likes,       \* like request -> progress of likeVideo
  pubLog,      \* every io.to(room).emit(...) call made, in order (ok: it did not throw)
  inbox,       \* instance -> publishes relayed by Redis, not yet received
  recvLog,     \* instance -> publishes its adapter has dispatched
  delivered    \* conn -> publishes pushed to the socket, in order

vars == <<relayUp, sockets, rooms, identity, followers, following, videos,
          uploads, runs, follows, likes, pubLog, inbox, recvLog, delivered>>

sockVars == <<sockets, rooms, identity>>
dbVars   == <<followers, following, videos>>
reqVars  == <<uploads, runs, follows, likes>>
pubVars  == <<pubLog, inbox, recvLog, delivered>>

\* ------------------------------------------------------------- helpers
Range(s) == {s[k] : k \in DOMAIN s}

Count(s, x) == Cardinality({k \in DOMAIN s : s[k] = x})

Min(a, b) == IF a < b THEN a ELSE b

\* connections of instance i that are members of room r (adapter.rooms.get(r))
membersOf(i, r) == {c \in Conns : sockets[c].inst = i /\ r \in rooms[c]}

\* an update that pushes the element whether or not it is present
AddToSet_Append(arr, x) == Append(arr, x)

\* $addToSet: append the value unless the array already holds it
AddToSet(arr, x) == IF x \in Range(arr) THEN arr ELSE Append(arr, x)

IdleUpload == [pc |-> "idle", userId |-> 0, inst |-> 0, video |-> 0, status |-> 0]
IdleRun    == [pc |-> "idle", inst |-> 0, tick |-> 0, outcome |-> "none"]
IdleFollow == [pc |-> "idle", userId |-> 0, targetId |-> 0, status |-> 0]
IdleLike   == [pc |-> "idle", video |-> 0, read |-> 0, status |-> 0]

Init ==
  /\ relayUp = TRUE
  /\ sockets = [c \in Conns |-> [state |-> "none", inst |-> 0]]
  /\ rooms = [c \in Conns |-> {}]
  /\ identity = [c \in Conns |-> 0]
  /\ followers = [u \in Users |-> IF u = 1 THEN <<2>> ELSE <<>>]
  /\ following = [u \in Users |-> IF u = 2 THEN <<1>> ELSE <<>>]
  /\ videos = [k \in DOMAIN InitialLikes |-> [user |-> 1, likes |-> InitialLikes[k]]]
  /\ uploads = [r \in UploadIds |-> IdleUpload]
  /\ runs = [k \in RunIds |-> IdleRun]
  /\ follows = [q \in FollowIds |-> IdleFollow]
  /\ likes = [l \in LikeIds |-> IdleLike]
  /\ pubLog = <<>>
  /\ inbox = [i \in Instances |-> <<>>]
  /\ recvLog = [i \in Instances |-> <<>>]
  /\ delivered = [c \in Conns |-> <<>>]

\* requests and cron ticks started so far
Started ==
  Cardinality({r \in UploadIds : uploads[r].pc # "idle"})
  + Cardinality({k \in RunIds : runs[k].pc # "idle"})
  + Cardinality({q \in FollowIds : follows[q].pc # "idle"})
  + Cardinality({l \in LikeIds : likes[l].pc # "idle"})

\* ------------------------------------------------- socket.js: connections
\* io.on("connection"): a client connects to instance i; no room joined
Connect(c, i) ==
  /\ sockets[c].state = "none"
  /\ \A c2 \in Conns : c2 < c => sockets[c2].state # "none"
  /\ sockets' = [sockets EXCEPT ![c] = [state |-> "open", inst |-> i]]
  /\ UNCHANGED <<rooms, identity>>
  /\ UNCHANGED <<relayUp, dbVars, reqVars, pubVars>>

\* a register that joins the personal room only
Register_NoTrending(c, u) ==
  /\ sockets[c].state = "open"
  /\ rooms' = [rooms EXCEPT ![c] = rooms[c] \cup {UserRoom(u)}]
  /\ identity' = [identity EXCEPT ![c] = u]
  /\ UNCHANGED sockets
  /\ UNCHANGED <<relayUp, dbVars, reqVars, pubVars>>

\* a register that replays to the socket the events already published to
\* the rooms it joins
Register_Replay(c, u) ==
  /\ sockets[c].state = "open"
  /\ rooms' = [rooms EXCEPT ![c] = rooms[c] \cup {UserRoom(u), TrendingRoom}]
  /\ identity' = [identity EXCEPT ![c] = u]
  /\ delivered' = [delivered EXCEPT ![c] =
        @ \o SelectSeq([p \in DOMAIN pubLog |-> p],
                       LAMBDA p : /\ pubLog[p].ok
                                  /\ pubLog[p].room \in {UserRoom(u), TrendingRoom}
                                  /\ Count(delivered[c], p) = 0)]
  /\ UNCHANGED <<sockets, pubLog, inbox, recvLog>>
  /\ UNCHANGED <<relayUp, dbVars, reqVars>>

\* socket.on("register"): join the personal room and the trending room
\* (the client sends the id of the user that logged in)
Register(c, u) ==
  /\ sockets[c].state = "open"
  /\ rooms' = [rooms EXCEPT ![c] = rooms[c] \cup {UserRoom(u), TrendingRoom}]
  /\ identity' = [identity EXCEPT ![c] = u]
  /\ UNCHANGED sockets
  /\ UNCHANGED <<relayUp, dbVars, reqVars, pubVars>>

\* a close that leaves the socket in its rooms
RoomsAfterClose_Keep(c) == rooms[c]

\* rooms a socket is left in when it closes: Socket.IO leaves all of them
RoomsAfterClose(c) == {}

\* socket.on("disconnect")
Disconnect(c) ==
  /\ sockets[c].state = "open"
  /\ sockets' = [sockets EXCEPT ![c].state = "closed"]
  /\ rooms' = [rooms EXCEPT ![c] = RoomsAfterClose(c)]
  /\ identity' = [identity EXCEPT ![c] = 0]
  /\ UNCHANGED <<relayUp, dbVars, reqVars, pubVars>>

\* ------------------------------------------------ redisClient.js: Redis
\* redis.on("error"): the connection to Redis is lost
RelayDown ==
  /\ relayUp
  /\ relayUp' = FALSE
  /\ UNCHANGED <<sockVars, dbVars, reqVars, pubVars>>

\* the Redis clients reconnect
RelayRestore ==
  /\ ~relayUp
  /\ relayUp' = TRUE
  /\ UNCHANGED <<sockVars, dbVars, reqVars, pubVars>>

\* ------------------------------------------- socket.js: the Redis adapter
\* a relay that also hands the publishing instance its own message
Recipients_All(i) == Instances

\* instances a publish of instance i is relayed to through Redis; the
\* publishing instance dispatches to its own sockets directly
Recipients(i) == Instances \ {i}

\* a dispatch that falls back to every socket of the instance for an empty room
LocalTargets_Broadcast(i, r) ==
  IF membersOf(i, r) = {} THEN {c \in Conns : sockets[c].inst = i} ELSE membersOf(i, r)

\* connections of instance i a publish to room r is pushed to
LocalTargets(i, r) == membersOf(i, r)

\* pubs.forEach(p => io.to(p.room).emit(p.kind, p.video)) on instance i, of
\* which the first n emits complete: each is dispatched to the local members
\* and sent through Redis to the other instances; emit n + 1, if there is
\* one, throws and ends the forEach
Publish(i, pubs, n) ==
  LET base == Len(pubLog)
      ids  == [k \in 1..n |-> base + k]
      hits(c) == SelectSeq(ids, LAMBDA p : c \in LocalTargets(i, pubs[p - base].room))
      calls == [k \in 1..Min(Len(pubs), n + 1) |-> [pubs[k] EXCEPT !.ok = (k <= n)]]
  IN /\ pubLog' = pubLog \o calls
     /\ delivered' = [c \in Conns |-> delivered[c] \o hits(c)]
     /\ recvLog' = [recvLog EXCEPT ![i] = @ \o ids]
     /\ inbox' = [j \in Instances |->
                    IF j \in Recipients(i) THEN inbox[j] \o ids ELSE inbox[j]]

\* the adapter of instance j receives the next relayed publish and dispatches
\* it to the members of the room among its own sockets
Receive(j) ==
  /\ inbox[j] # <<>>
  /\ LET p == Head(inbox[j])
     IN /\ delivered' = [c \in Conns |->
                           IF c \in LocalTargets(j, pubLog[p].room)
                           THEN Append(delivered[c], p) ELSE delivered[c]]
        /\ recvLog' = [recvLog EXCEPT ![j] = Append(@, p)]
  /\ inbox' = [inbox EXCEPT ![j] = Tail(@)]
  /\ UNCHANGED pubLog
  /\ UNCHANGED <<relayUp, sockVars, dbVars, reqVars>>

\* ------------------------------------- userController.js: follow(req, res)
\* validation and the first update: $addToSet userId to target.followers
FollowRequest(q, u, t) ==
  /\ follows[q].pc = "idle"
  /\ Started < MaxOps
  /\ \A q2 \in FollowIds : q2 < q => follows[q2].pc # "idle"
  /\ IF u = t
     THEN /\ follows' = [follows EXCEPT ![q] =
                [pc |-> "done", userId |-> 0, targetId |-> 0, status |-> 400]]
          /\ UNCHANGED followers
     ELSE /\ follows' = [follows EXCEPT ![q] =
                [pc |-> "second", userId |-> u, targetId |-> t, status |-> 0]]
          /\ followers' = IF t \in Users
                          THEN [followers EXCEPT ![t] = AddToSet(@, u)]
                          ELSE followers
  /\ UNCHANGED <<following, videos>>
  /\ UNCHANGED <<relayUp, sockVars, uploads, runs, likes, pubVars>>

\* the first update rejects (database error): caught, status 400
FollowFirstFailed(q, u, t) ==
  /\ follows[q].pc = "idle"
  /\ Started < MaxOps
  /\ \A q2 \in FollowIds : q2 < q => follows[q2].pc # "idle"
  /\ u # t
  /\ follows' = [follows EXCEPT ![q] =
       [pc |-> "done", userId |-> 0, targetId |-> 0, status |-> 400]]
  /\ UNCHANGED <<relayUp, sockVars, dbVars, uploads, runs, likes, pubVars>>

\* the second update rejects (database error) after the first was applied:
\* caught, status 400; the first update is not undone
FollowSecondFailed(q) ==
  /\ follows[q].pc = "second"
  /\ follows' = [follows EXCEPT ![q] =
       [pc |-> "done", userId |-> 0, targetId |-> 0, status |-> 400]]
  /\ UNCHANGED <<relayUp, sockVars, dbVars, uploads, runs, likes, pubVars>>

\* the second update: $addToSet targetId to user.following, then res.json
FollowSecond(q) ==
  /\ follows[q].pc = "second"
  /\ LET u == follows[q].userId
         t == follows[q].targetId
     IN following' = IF u \in Users
                     THEN [following EXCEPT ![u] = AddToSet(@, t)]
                     ELSE following
  /\ follows' = [follows EXCEPT ![q] =
       [pc |-> "done", userId |-> 0, targetId |-> 0, status |-> 200]]
  /\ UNCHANGED <<followers, videos>>
  /\ UNCHANGED <<relayUp, sockVars, uploads, runs, likes, pubVars>>

\* ---------------------------------- videoController.js: likeVideo(req, res)
\* Video.findById; a missing video makes video.likes throw: status 400
LikeRead(l, v) ==
  /\ likes[l].pc = "idle"
  /\ Started < MaxOps
  /\ \A l2 \in LikeIds : l2 < l => likes[l2].pc # "idle"
  /\ likes' = [likes EXCEPT ![l] =
       IF v \in DOMAIN videos
       THEN [pc |-> "saving", video |-> v, read |-> videos[v].likes, status |-> 0]
       ELSE [pc |-> "done", video |-> 0, read |-> 0, status |-> 400]]
  /\ UNCHANGED <<relayUp, sockVars, dbVars, uploads, runs, follows, pubVars>>

\* video.likes = (video.likes || 0) + 1; await video.save(); res.json(video)
LikeSave(l) ==
  /\ likes[l].pc = "saving"
  /\ videos' = [videos EXCEPT ![likes[l].video].likes = likes[l].read + 1]
  /\ likes' = [likes EXCEPT ![l] =
       [pc |-> "done", video |-> 0, read |-> 0, status |-> 200]]
  /\ UNCHANGED <<followers, following>>
  /\ UNCHANGED <<relayUp, sockVars, uploads, runs, follows, pubVars>>

\* -------------------------------- videoController.js: uploadVideo(req, res)
\* the payload of an event: the video document
VideoDoc(id) == [id |-> id, user |-> videos[id].user, likes |-> videos[id].likes]

\* a request arrives on instance i; without a file it is answered 400
UploadRequest(r, u, hasFile, i) ==
  /\ uploads[r].pc = "idle"
  /\ Started < MaxOps
  /\ \A r2 \in UploadIds : r2 < r => uploads[r2].pc # "idle"
  /\ uploads' = [uploads EXCEPT ![r] =
       IF hasFile
       THEN [pc |-> "saving", userId |-> u, inst |-> i, video |-> 0, status |-> 0]
       ELSE [pc |-> "done", userId |-> 0, inst |-> 0, video |-> 0, status |-> 400]]
  /\ UNCHANGED <<relayUp, sockVars, dbVars, runs, follows, likes, pubVars>>

\* await video.save() resolves: the record is stored
UploadSaved(r) ==
  /\ uploads[r].pc = "saving"
  /\ videos' = Append(videos, [user |-> uploads[r].userId, likes |-> 0])
  /\ uploads' = [uploads EXCEPT ![r].pc = "finding", ![r].video = Len(videos) + 1]
  /\ UNCHANGED <<followers, following>>
  /\ UNCHANGED <<relayUp, sockVars, runs, follows, likes, pubVars>>

\* await video.save() rejects: caught, status 500
UploadSaveFailed(r) ==
  /\ uploads[r].pc = "saving"
  /\ uploads' = [uploads EXCEPT ![r] =
       [pc |-> "done", userId |-> 0, inst |-> 0, video |-> 0, status |-> 500]]
  /\ UNCHANGED <<relayUp, sockVars, dbVars, runs, follows, likes, pubVars>>

\* the events uploadVideo emits for the followers array fs, in array order
FollowerPubs(r, fs) ==
  [k \in 1..Len(fs) |->
     [inst |-> uploads[r].inst, room |-> UserRoom(fs[k]), kind |-> "feed-update-following",
      video |-> VideoDoc(uploads[r].video), from |-> "upload", src |-> r,
      audience |-> Range(fs), tick |-> 0,
      members |-> {c \in Conns : UserRoom(fs[k]) \in rooms[c]}, ok |-> TRUE]]

\* emits that complete whatever the state of Redis
Emitted_IgnoreRelay(n) == n

\* number of emits of a forEach over n elements that complete: an emit throws
\* while Redis is unreachable
Emitted(n) == IF relayUp THEN n ELSE 0

\* User.findById(userId) resolves; the followers are notified; res.json(video).
\* A missing user makes user.followers throw, a throwing emit ends the
\* forEach: both are caught and answered with status 500.
UploadNotify(r) ==
  /\ uploads[r].pc = "finding"
  /\ LET u == uploads[r].userId
     IN IF u \notin Users
        THEN /\ uploads' = [uploads EXCEPT ![r] =
                    [pc |-> "done", userId |-> 0, inst |-> 0,
                     video |-> uploads[r].video, status |-> 500]]
             /\ UNCHANGED pubVars
        ELSE LET pubs == FollowerPubs(r, followers[u])
                 n == Emitted(Len(pubs))
             IN /\ Publish(uploads[r].inst, pubs, n)
                /\ uploads' = [uploads EXCEPT ![r] =
                       [pc |-> "done", userId |-> 0, inst |-> 0,
                        video |-> uploads[r].video,
                        status |-> IF n = Len(pubs) THEN 200 ELSE 500]]
  /\ UNCHANGED <<relayUp, sockVars, dbVars, runs, follows, likes>>

\* ------------------------------- server.js cron + trendingJob.js

\* Video.find({ likes: { $gte: threshold } })
Matching == {id \in DOMAIN videos : videos[id].likes >= TREND_THRESHOLD}

\* .sort({ likes: -1 }): every order of the matching videos with
\* non-increasing like counts (the order among equal counts is not fixed)
SortedByLikes ==
  LET n == Cardinality(Matching)
  IN {s \in [1..n -> Matching] :
        /\ \A a, b \in 1..n : a # b => s[a] # s[b]
        /\ \A a \in 1..n : a < n => videos[s[a]].likes >= videos[s[a + 1]].likes}

\* .limit(10)
Limit(s) == SubSeq(s, 1, Min(Len(s), TrendingLimit))

\* the results the trending query can return
TrendingQuery == {Limit(s) : s \in SortedByLikes}

\* the events processTrending emits for the query result res
TrendingPubs(k, res) ==
  [x \in 1..Len(res) |->
     [inst |-> runs[k].inst, room |-> TrendingRoom, kind |-> "feed-update-trending",
      video |-> VideoDoc(res[x]), from |-> "run", src |-> k, audience |-> {},
      tick |-> runs[k].tick, members |-> {c \in Conns : TrendingRoom \in rooms[c]},
      ok |-> TRUE]]

\* the cron callback fires on instance i and may start processTrending
CronMayStart(i) == TRUE

\* cron.schedule callback at the t-th even minute on instance i: every
\* instance schedules the job, each fires once per tick; processTrending is
\* called and issues its query
Tick(k, i, t) ==
  /\ runs[k].pc = "idle"
  /\ Started < MaxOps
  /\ \A k2 \in RunIds : k2 < k => runs[k2].pc # "idle"
  /\ \A k2 \in RunIds : runs[k2].pc # "idle" =>
        /\ runs[k2].tick <= t
        /\ ~ (runs[k2].inst = i /\ runs[k2].tick = t)
  /\ t = 1 \/ \E k2 \in RunIds : runs[k2].pc # "idle" /\ runs[k2].tick >= t - 1
  /\ CronMayStart(i)
  /\ runs' = [runs EXCEPT ![k].pc = "querying", ![k].inst = i, ![k].tick = t]
  /\ UNCHANGED <<relayUp, sockVars, dbVars, uploads, follows, likes, pubVars>>

\* the query resolves and every item is emitted to the trending room; a
\* throwing emit ends the forEach and is caught and logged
TrendingRun(k) ==
  /\ runs[k].pc = "querying"
  /\ \E res \in TrendingQuery :
       LET pubs == TrendingPubs(k, res)
           n == Emitted(Len(pubs))
       IN /\ Publish(runs[k].inst, pubs, n)
          /\ runs' = [runs EXCEPT ![k] =
                 [pc |-> "done", inst |-> runs[k].inst, tick |-> runs[k].tick,
                  outcome |-> IF n = Len(pubs) THEN "ok" ELSE "error"]]
  /\ UNCHANGED <<relayUp, sockVars, dbVars, uploads, follows, likes>>

Next ==
  \/ RelayDown
  \/ RelayRestore
  \/ \E j \in Instances : Receive(j)
  \/ \E q \in FollowIds, u \in UserIds, t \in UserIds : FollowRequest(q, u, t)
  \/ \E q \in FollowIds, u \in UserIds, t \in UserIds : FollowFirstFailed(q, u, t)
  \/ \E q \in FollowIds : FollowSecond(q)
  \/ \E q \in FollowIds : FollowSecondFailed(q)
  \/ \E l \in LikeIds, v \in 1..(Len(videos) + 1) : LikeRead(l, v)
  \/ \E l \in LikeIds : LikeSave(l)
  \/ \E r \in UploadIds, u \in UserIds, f \in BOOLEAN, i \in Instances :
        UploadRequest(r, u, f, i)
  \/ \E r \in UploadIds : UploadSaved(r)
  \/ \E r \in UploadIds : UploadSaveFailed(r)
  \/ \E r \in UploadIds : UploadNotify(r)
  \/ \E k \in RunIds, i \in Instances, t \in 1..MaxTicks : Tick(k, i, t)
  \/ \E k \in RunIds : TrendingRun(k)
  \/ \E c \in Conns, i \in Instances : Connect(c, i)
  \/ \E c \in Conns, u \in Users : Register(c, u)
  \/ \E c \in Conns : Disconnect(c)

Spec == Init /\ [][Next]_vars


\* ======================================================= properties
Closed(c) == sockets[c].state = "closed"

\* emit calls appended to pubLog by the current step
NewPubs == Len(pubLog) + 1 .. Len(pubLog')

\* video ids of all emit calls of the current step, completed or not, in order
NewCallVideos ==
  [x \in 1..(Len(pubLog') - Len(pubLog)) |-> pubLog'[Len(pubLog) + x].video.id]

\* publishes appended to delivered[c] by the current step
NewDeliveries(c) == {delivered'[c][x] : x \in Len(delivered[c]) + 1 .. Len(delivered'[c])}

\* the step completes uploadVideo's notification of request r
NotifyStep(r) == uploads[r].pc = "finding" /\ uploads'[r].pc = "done"

\* the step completes run k of processTrending
RunStep(k) == runs[k].pc = "querying" /\ runs'[k].pc = "done"

\* C1: a connection that has registered is a member of the personal group of
\* its latest register call and of no other personal group.
C1_OnePersonalGroup ==
  \A c \in Conns : identity[c] # 0 =>
    /\ UserRoom(identity[c]) \in rooms[c]
    /\ \A u \in UserIds : u # identity[c] => UserRoom(u) \notin rooms[c]

\* C2: at most one processTrending run is in flight per instance.
C2_OneRunInFlight ==
  \A i \in Instances :
    Cardinality({k \in RunIds : runs[k].pc = "querying" /\ runs[k].inst = i}) <= 1

\* C3: every upload whose video record was saved is answered with the success
\* response, and no event is published for a video whose owner has no record.
C3_UploadSucceedsOnceSaved ==
  /\ \A r \in UploadIds :
       (uploads[r].pc = "done" /\ uploads[r].video # 0) => uploads[r].status = 200
  /\ \A p \in DOMAIN pubLog :
       pubLog[p].from = "upload" => pubLog[p].video.user \in Users

C5_DisconnectedReceivesNothing ==
  /\ [](\A c \in Conns : Closed(c) =>
          /\ rooms[c] = {}
          /\ \A i \in Instances, u \in UserIds :
               c \notin membersOf(i, UserRoom(u)) /\ c \notin membersOf(i, TrendingRoom))
  /\ [][\A c \in Conns : Closed(c) => delivered'[c] = delivered[c]]_vars

\* C5 witness: a connection received a trending event, disconnected, and a
\* later trending event was dispatched on every instance without reaching it.
C5_Witness ==
  \E c \in Conns : \E p, p2 \in DOMAIN pubLog :
    /\ Closed(c)
    /\ p2 < p
    /\ pubLog[p].room = TrendingRoom /\ pubLog[p2].room = TrendingRoom
    /\ pubLog[p].ok
    /\ p2 \in Range(delivered[c]) /\ p \notin Range(delivered[c])
    /\ \A i \in Instances : inbox[i] = <<>>

C8_OnlyFollowersReceiveUploads ==
  [][\A c \in Conns : \A p \in NewDeliveries(c) :
       /\ pubLog'[p].kind = "feed-update-following" => identity[c] \in pubLog'[p].audience
       /\ pubLog'[p].kind = "feed-update-trending" => TrendingRoom \in rooms[c]]_vars

\* C9: every publish is dispatched exactly once by every instance (it is
\* either still in flight to the instance or was dispatched there once), no
\* connection is handed a publish twice, and the dispatch on an instance
\* hands it once to every member of the group on that instance.
C9_ExactlyOncePerInstance ==
  /\ [](\A p \in DOMAIN pubLog : pubLog[p].ok =>
          /\ \A i \in Instances : Count(recvLog[i], p) + Count(inbox[i], p) = 1
          /\ \A c \in Conns : Count(delivered[c], p) <= 1)
  /\ [][\A i \in Instances : \A p \in DOMAIN pubLog' :
          (Count(recvLog'[i], p) = 1 /\ Count(recvLog[i], p) = 0) =>
             \A c \in membersOf(i, pubLog'[p].room) : Count(delivered'[c], p) = 1]_vars

\* C9 witness: a publish made on one instance was dispatched by every instance
\* and reached a connection held by another instance.
C9_Witness ==
  \E p \in DOMAIN pubLog : \E c \in Conns :
    /\ \A i \in Instances : Count(recvLog[i], p) = 1
    /\ sockets[c].inst # pubLog[p].inst
    /\ Count(delivered[c], p) = 1

C11_TrendingIffRegistered ==
  /\ [](\A c \in Conns :
          /\ sockets[c].state = "none" => (rooms[c] = {} /\ delivered[c] = <<>>)
          /\ sockets[c].state = "open" =>
               /\ (TrendingRoom \in rooms[c]) <=> (identity[c] # 0)
               /\ identity[c] # 0 => UserRoom(identity[c]) \in rooms[c]
               /\ identity[c] = 0 => (rooms[c] = {} /\ delivered[c] = <<>>))
  /\ [][\A c \in Conns : identity[c] = 0 => delivered'[c] = delivered[c]]_vars

\* C11 witness: a registered connection was handed a trending event.
C11_Witness ==
  \E c \in Conns : \E p \in DOMAIN pubLog :
    /\ sockets[c].state = "open" /\ identity[c] # 0
    /\ TrendingRoom \in rooms[c]
    /\ pubLog[p].kind = "feed-update-trending"
    /\ Count(delivered[c], p) = 1

\* C12: a dispatch to a group without member on the dispatching instance hands
\* the event to no connection, changes no socket or room, and gives the
\* publisher no error (status 200, outcome ok) while Redis is reachable.
C12_EmptyGroupDispatchIsNoOp ==
  [][/\ \A r \in UploadIds :
          (/\ NotifyStep(r) /\ relayUp /\ uploads[r].userId \in Users
           /\ \A f \in Range(followers[uploads[r].userId]) :
                membersOf(uploads[r].inst, UserRoom(f)) = {}) =>
            /\ UNCHANGED <<delivered, rooms, sockets, identity>>
            /\ uploads'[r].status = 200
     /\ \A k \in RunIds :
          (RunStep(k) /\ relayUp /\ membersOf(runs[k].inst, TrendingRoom) = {}) =>
            /\ UNCHANGED <<delivered, rooms, sockets, identity>>
            /\ runs'[k].outcome = "ok"
     /\ \A j \in Instances :
          (/\ inbox[j] # <<>> /\ inbox'[j] = Tail(inbox[j])
           /\ membersOf(j, pubLog[Head(inbox[j])].room) = {}) =>
            UNCHANGED <<delivered, rooms, sockets, identity, pubLog, uploads, runs>>]_vars

\* C12 witness: a publish was dispatched by every instance and handed to no
\* connection, and the upload that made it was answered with status 200.
C12_Witness ==
  \E p \in DOMAIN pubLog :
    /\ pubLog[p].ok /\ pubLog[p].from = "upload"
    /\ uploads[pubLog[p].src].status = 200
    /\ \A i \in Instances : Count(recvLog[i], p) = 1
    /\ \A c \in Conns : Count(delivered[c], p) = 0

\* C13: a feed-update-following event carries a video that was stored before
\* the emit; an upload without file or with a failed save stores no video and
\* emits nothing; the videos stored are exactly those of the saved uploads; one
\* upload never emits to the same follower room twice.
C13_FollowerEventsAfterSaveOnce ==
  /\ [](/\ \A p \in DOMAIN pubLog : pubLog[p].from = "upload" =>
             /\ pubLog[p].video.id \in DOMAIN videos
             /\ uploads[pubLog[p].src].pc = "done"
             /\ uploads[pubLog[p].src].video = pubLog[p].video.id
        /\ \A r \in UploadIds : uploads[r].video = 0 =>
             ~ \E p \in DOMAIN pubLog : pubLog[p].from = "upload" /\ pubLog[p].src = r
        /\ Len(videos) = Len(InitialLikes) + Cardinality({r \in UploadIds : uploads[r].video # 0})
        /\ \A p, q \in DOMAIN pubLog :
             (/\ p # q /\ pubLog[p].from = "upload" /\ pubLog[q].from = "upload"
              /\ pubLog[p].src = pubLog[q].src) => pubLog[p].room # pubLog[q].room)
  /\ [][/\ \A p \in NewPubs : pubLog'[p].from = "upload" =>
             /\ pubLog'[p].video.id \in DOMAIN videos
             /\ uploads[pubLog'[p].src].video = pubLog'[p].video.id
        /\ \A r \in UploadIds :
             (uploads[r].pc \in {"idle", "saving"} /\ uploads'[r].pc = "done") =>
               (videos' = videos /\ pubLog' = pubLog /\ uploads'[r].status \in {400, 500})]_vars

\* C13 witness: an upload was saved, its follower was sent the event and the
\* request was answered with status 200.
C13_Witness ==
  \E r \in UploadIds : \E p \in DOMAIN pubLog :
    /\ uploads[r].pc = "done" /\ uploads[r].status = 200 /\ uploads[r].video \in DOMAIN videos
    /\ pubLog[p].from = "upload" /\ pubLog[p].src = r /\ pubLog[p].ok
    /\ pubLog[p].video.id = uploads[r].video

\* C14: the cron callbacks of one tick (the same even minute on every
\* instance) hand each trending item to a connection at most once.
C14_OneDeliveryPerTick ==
  \A c \in Conns : \A x, y \in DOMAIN delivered[c] :
    LET p == pubLog[delivered[c][x]]
        q == pubLog[delivered[c][y]]
    IN (/\ x # y /\ p.from = "run" /\ q.from = "run"
        /\ p.video.id = q.video.id) => p.tick # q.tick

\* C15 as stated: an event is handed only to connections that were members
\* of its group at the moment the publisher emitted it.
C15_OnlyMembersAtPublish ==
  [][\A c \in Conns : \A p \in NewDeliveries(c) : c \in pubLog'[p].members]_vars

\* C15 amended: every instance dispatches an event once and keeps no copy; the
\* dispatch hands it only to the sockets of that instance that are in the
\* group at that moment, so a connection that joins the group after its
\* instance dispatched the event never receives it.
C15_NoReplayAfterDispatch ==
  /\ [](\A p \in DOMAIN pubLog : \A i \in Instances : Count(recvLog[i], p) <= 1)
  /\ [][\A c \in Conns : \A p \in NewDeliveries(c) :
          /\ pubLog'[p].room \in rooms[c]
          /\ Count(recvLog[sockets[c].inst], p) = 0
          /\ Count(recvLog'[sockets[c].inst], p) = 1]_vars

\* C15 witness: a connection joined the group of an event after the event was
\* published; every instance has dispatched the event and the connection was
\* not handed it.
C15_Witness ==
  \E c \in Conns : \E p \in DOMAIN pubLog :
    /\ pubLog[p].ok /\ c \notin pubLog[p].members
    /\ sockets[c].state = "open" /\ pubLog[p].room \in rooms[c]
    /\ \A i \in Instances : Count(recvLog[i], p) = 1
    /\ Count(delivered[c], p) = 0

\* video ids of the emit calls of run k, completed or not, in order
CallsOfRun(k) ==
  LET own == SelectSeq([p \in DOMAIN pubLog |-> p],
                       LAMBDA p : pubLog[p].from = "run" /\ pubLog[p].src = k)
  IN [x \in 1..Len(own) |-> pubLog[own[x]].video.id]

RECURSIVE LikesUpTo(_)
LikesUpTo(n) == IF n = 0 THEN 0 ELSE videos[n].likes + LikesUpTo(n - 1)

\* sum of the first n initial like counts
RECURSIVE InitialLikesUpTo(_)
InitialLikesUpTo(n) == IF n = 0 THEN 0 ELSE InitialLikes[n] + InitialLikesUpTo(n - 1)

\* C17: once no like request is in flight, the stored like counts add up to
\* the initial counts (an uploaded video starts at 0) plus one for every like
\* request answered successfully.
C17_LikesNeverLost ==
  (\A l \in LikeIds : likes[l].pc # "saving") =>
    LikesUpTo(Len(videos)) =
      InitialLikesUpTo(Len(InitialLikes))
      + Cardinality({l \in LikeIds : likes[l].pc = "done" /\ likes[l].status = 200})

\* C18: once no follow request is in flight, u is in the followers of t
\* exactly if t is in the following of u, for all users u and t, and no user
\* is their own follower or follows themselves.
C18_FollowRelationSymmetric ==
  (\A q \in FollowIds : follows[q].pc \in {"idle", "done"}) =>
    \A u, t \in Users :
      /\ (u \in Range(followers[t])) <=> (t \in Range(following[u]))
      /\ u \notin Range(followers[u]) /\ u \notin Range(following[u])

====
